---- MODULE Spec2Model ----
(***************************************************************************)
(* A model of chrome-cache-parser's block-file traversal engine            *)
(* (src/src/block_file.rs, src/src/cache_address.rs).                      *)
(*                                                                         *)
(* Encodings.                                                              *)
(*  - A u32 (a cache address, a magic word) is the record [hi, lo] of its  *)
(*    two 16-bit halves: value = hi * 65536 + lo.                          *)
(*  - A usize is written as the integer congruent to it modulo 2^64 that   *)
(*    lies in (-2^63, 2^63): a negative integer x stands for the unsigned  *)
(*    value 2^64 + x.  Unsigned order and unsigned overflow are computed   *)
(*    on that encoding by ULess, UAddOverflows and UMulOverflows.  The     *)
(*    target is a 64-bit one.  A build either traps an overflowing         *)
(*    addition or multiplication (overflow checks on, a panic) or wraps    *)
(*    it; every call is taken under both (the parameter oc).               *)
(*  - A data file is described by its length, its first 32-bit word, the   *)
(*    entry_size field of its header and the `next` field of the 256-byte  *)
(*    record held in each 256-byte block after the header.                 *)
(*  - The allocation behind a Vec<u8> is taken to be 8-byte aligned.       *)
(***************************************************************************)
EXTENDS Integers, Sequences, FiniteSets, TLC

VARIABLES
    directory,        \* the cache directory: file number n -> state of data_<n>
    data_files,       \* DataFiles.data_files: file number -> loaded buffer
    iter,             \* the LazyBlockFileCacheEntryIterator and its history
    last,             \* what the last call did and returned
    loads,            \* file number -> how many times data_<n> was read whole
    writes,           \* how many times the directory was changed from outside
    crashed,          \* a call panicked: the thread has unwound
    probe,            \* a codec call: its input, then its result
    entry,            \* the entry view a caller holds (LazyBlockFileCacheEntry)
    readers,          \* the stream readers stream_readers returned, slot by slot
    ext_files,        \* the names of the f_<hex> files the cache directory holds
    borrows           \* live mutable borrows of the Rc<RefCell<DataFiles>>

view_vars == <<entry, readers, ext_files>>

vars == <<directory, data_files, iter, last, loads, writes, crashed, probe,
          entry, readers, ext_files, borrows>>

\* ------------------------------------------------------------------ bounds

MaxYield == 4         \* iter.yielded stops growing here
MaxWrites == 1        \* outside changes of the directory in one behaviour

\* --------------------------------------------------------------- constants

BLOCK_HEADER_SIZE == 8192
ENTRY_SIZE == 256
ENTRY_ALIGN == 8
RANKINGS_SIZE == 36

External == 0
Rankings == 1
Block256 == 2

U32(hi, lo) == [hi |-> hi, lo |-> lo]

BLOCK_MAGIC == U32(49412, 51907)      \* 0xc104cac3
INDEX_MAGIC == U32(49411, 51907)      \* 0xc103cac3

\* ---------------------------------------------------------- cache address

ZeroAddr == U32(0, 0)

is_initialized(a) == ~(a.hi = 0 /\ a.lo = 0)

file_type(a) == (a.hi \div 4096) % 8

file_number_Selector(a) == a.hi % 256

file_number(a) ==
    IF file_type(a) = External
    THEN (a.hi % 4096) * 65536 + a.lo
    ELSE a.hi % 256

start_block(a) == a.lo

\* 0x80ff_bbbb + t * 0x1000_0000: initialized, file type t, file selector f,
\* start block b
TypedAddr(t, f, b) == U32(32768 + t * 4096 + f, b)
BlockAddr(f, b) == TypedAddr(Block256, f, b)
\* 0x8000_nnnn: initialized, External, file number n
ExternalAddr(n) == U32(32768, n)

\* ------------------------------------------------------------- the inputs

FileNums == {0, 1}
Blocks == {0, 1}

NextAddrs == {ZeroAddr, BlockAddr(0, 1), BlockAddr(1, 0)}

StartAddrs == {ZeroAddr, BlockAddr(0, 0), BlockAddr(1, 0), ExternalAddr(1)}

GetAddrs == {TypedAddr(Rankings, 1, 0), ExternalAddr(1)}

File(len, magic, entry_size, next) ==
    [kind |-> "file", len |-> len, magic |-> magic, entry_size |-> entry_size,
     next |-> next]

NoFile(kind) ==
    [kind |-> kind, len |-> 0, magic |-> ZeroAddr, entry_size |-> 0,
     next |-> <<ZeroAddr, ZeroAddr>>]

Missing == NoFile("missing")          \* File::open fails
Unreadable == NoFile("unreadable")    \* File::open succeeds, read_to_end fails
Vacant == NoFile("vacant")            \* no entry in the registry

FullLen == BLOCK_HEADER_SIZE + 2 * ENTRY_SIZE

GoodFiles ==
    {File(FullLen, BLOCK_MAGIC, ENTRY_SIZE, <<n0, n1>>) : n0 \in NextAddrs, n1 \in NextAddrs}

BadMagicFile == File(FullLen, INDEX_MAGIC, ENTRY_SIZE, <<ZeroAddr, ZeroAddr>>)
ShortFile == File(100, BLOCK_MAGIC, ENTRY_SIZE, <<ZeroAddr, ZeroAddr>>)
EmptyFile == File(0, ZeroAddr, 0, <<ZeroAddr, ZeroAddr>>)
RankingsFile == File(FullLen, BLOCK_MAGIC, RANKINGS_SIZE, <<ZeroAddr, ZeroAddr>>)
TruncatedFile ==
    File(BLOCK_HEADER_SIZE + ENTRY_SIZE, BLOCK_MAGIC, ENTRY_SIZE, <<BlockAddr(0, 1), ZeroAddr>>)
NegativeSizeFile == File(FullLen, BLOCK_MAGIC, 0 - ENTRY_SIZE, <<ZeroAddr, ZeroAddr>>)

CorruptFiles ==
    {BadMagicFile, ShortFile, EmptyFile, RankingsFile, TruncatedFile, NegativeSizeFile}

Contents == GoodFiles \cup CorruptFiles

DiskStates == Contents \cup {Missing, Unreadable}

\* what the environment may put in place of data_<n>: a fresh block file, or nothing
Rewrites == {File(FullLen, BLOCK_MAGIC, ENTRY_SIZE, <<ZeroAddr, ZeroAddr>>), Missing}

\* ------------------------------------------------------- usize arithmetic

AsUsize(x) == x

ULess(a, b) == IF (a < 0) = (b < 0) THEN a < b ELSE b < 0

UAddOverflows(a, b) ==
    IF a < 0 /\ b < 0 THEN TRUE
    ELSE IF a < 0 \/ b < 0 THEN a + b >= 0
    ELSE FALSE

UMulOverflows(a, b) ==
    IF a < 0 /\ b < 0 THEN TRUE
    ELSE IF a < 0 THEN b >= 2
    ELSE IF b < 0 THEN a >= 2
    ELSE FALSE

\* ----------------------------------------------------------- buffer slice

BufferSlice(file, start, size) == [file |-> file, start |-> start, size |-> size]

NoSlice == BufferSlice(0 - 1, 0, 0)

\* -------------------------------------------------------- Option<CacheAddr>

Some(a) == [some |-> TRUE, addr |-> a]
None == [some |-> FALSE, addr |-> ZeroAddr]

\* ------------------------------------------------------ call results, parts

Call(ret, err) == [ret |-> ret, err |-> err]

IsLoaded(df, n) == df[n].kind # "vacant"

\* ----------------------------------------------------------- DataFiles::get

Occupied_Never(df, n) == FALSE

\* Entry::Occupied: the registry holds a buffer for file_number
Occupied(df, n) == IsLoaded(df, n)

\* fs::File::open(&file_path)? and file.read_to_end(&mut buf)?
ReadWholeFile(dir, n) ==
    IF dir[n].kind = "missing" \/ dir[n].kind = "unreadable"
    THEN [ret |-> "Err", err |-> "Io", buf |-> Vacant]
    ELSE [ret |-> "Ok", err |-> "", buf |-> dir[n]]

AfterFailedLoad_Inserted(df, n) == [df EXCEPT ![n] = EmptyFile]

\* the registry after a load that failed: `?` returns before entry.insert
AfterFailedLoad(df, n) == df

DataFiles_get(df, dir, n) ==
    IF Occupied(df, n)
    THEN [ret |-> "Ok", err |-> "", df |-> df, opened |-> {}, loaded |-> {}]
    ELSE LET r == ReadWholeFile(dir, n) IN
         IF r.ret = "Err"
         THEN [ret |-> "Err", err |-> r.err, df |-> AfterFailedLoad(df, n),
               opened |-> {n}, loaded |-> {}]
         ELSE [ret |-> "Ok", err |-> "", df |-> [df EXCEPT ![n] = r.buf],
               opened |-> {n}, loaded |-> {n}]

\* ------------------------------------------------------------ LazyBlockFile

MagicMismatch_Never(buf) == FALSE

\* header.magic != BLOCK_MAGIC
MagicMismatch(buf) == buf.magic # BLOCK_MAGIC

\* &self.buffer[0..mem::size_of::<BlockFileHeader>()] panics on a short
\* buffer; ref_from of the 8192 bytes succeeds; then the magic is compared.
LazyBlockFile_header(buf) ==
    IF BLOCK_HEADER_SIZE > buf.len
    THEN [ret |-> "Panic", err |-> "", entry_size |-> 0]
    ELSE IF MagicMismatch(buf)
    THEN [ret |-> "Err", err |-> "InvalidData", entry_size |-> 0]
    ELSE [ret |-> "Ok", err |-> "", entry_size |-> buf.entry_size]

\* BLOCK_HEADER_SIZE + addr.start_block() as usize * header.entry_size as usize
SliceStart(addr, entry_size) ==
    BLOCK_HEADER_SIZE + AsUsize(start_block(addr)) * AsUsize(entry_size)

SliceStartOverflows(addr, entry_size) ==
    \/ UMulOverflows(AsUsize(start_block(addr)), AsUsize(entry_size))
    \/ UAddOverflows(BLOCK_HEADER_SIZE, AsUsize(start_block(addr)) * AsUsize(entry_size))

get_buffer(buf, n, addr, oc) ==
    LET h == LazyBlockFile_header(buf) IN
    IF h.ret # "Ok"
    THEN [ret |-> h.ret, err |-> h.err, slice |-> NoSlice]
    ELSE IF oc /\ SliceStartOverflows(addr, h.entry_size)
    THEN [ret |-> "Panic", err |-> "", slice |-> NoSlice]
    ELSE [ret |-> "Ok", err |-> "",
          slice |-> BufferSlice(n, SliceStart(addr, h.entry_size), AsUsize(h.entry_size))]

\* ----------------------------------------------------- DataFiles::get_entry

\* the file is chosen by addr.file_number()
OwningFile(addr) == file_number(addr)

get_entry(df, dir, addr, oc) ==
    LET n == OwningFile(addr)
        g == DataFiles_get(df, dir, n) IN
    IF g.ret = "Err"
    THEN [ret |-> "Err", err |-> g.err, slice |-> NoSlice, df |-> g.df,
          opened |-> g.opened, loaded |-> g.loaded]
    ELSE LET b == get_buffer(g.df[n], n, addr, oc) IN
         [ret |-> b.ret, err |-> b.err, slice |-> b.slice, df |-> g.df,
          opened |-> g.opened, loaded |-> g.loaded]

\* ------------------------------------------------------- entry over a slice

\* &self.buffer[self.start..self.start + self.size]
BufferSlice_get(buf, s, oc) ==
    LET end == s.start + s.size IN
    IF oc /\ UAddOverflows(s.start, s.size) THEN "Panic"
    ELSE IF ULess(end, s.start) \/ ULess(buf.len, end) THEN "Panic"
    ELSE "Ok"

\* zerocopy ref_from: the byte count equals the type's size and the bytes are
\* aligned for the type
ref_from(len, start, size_of, align) == len = size_of /\ start % align = 0

\* the BlockFileCacheEntry overlaid on the 256 bytes at `start`
EntryAt(buf, start) ==
    [next |-> buf.next[((start - BLOCK_HEADER_SIZE) \div ENTRY_SIZE) + 1]]

NoEntry == [next |-> ZeroAddr]

LazyBlockFileCacheEntry_get(buf, s, oc) ==
    IF BufferSlice_get(buf, s, oc) = "Panic"
    THEN [ret |-> "Panic", err |-> "", entry |-> NoEntry]
    ELSE IF ref_from(s.size, s.start, ENTRY_SIZE, ENTRY_ALIGN)
    THEN [ret |-> "Ok", err |-> "", entry |-> EntryAt(buf, s.start)]
    ELSE [ret |-> "Err", err |-> "DataMisalignment", entry |-> NoEntry]

\* ------------------------------------ LazyBlockFileCacheEntryIterator::next

Taken_Kept(cur) == cur

\* self.current.take() leaves None behind
Taken(cur) == None

Follow_Unchecked(taken, p) ==
    IF p.ret = "Ok" THEN Some(p.entry.next) ELSE taken

\* if let Ok(current) = current.get() { if next.is_initialized() { ... } }
Follow(taken, p) ==
    IF p.ret = "Ok" /\ is_initialized(p.entry.next) THEN Some(p.entry.next) ELSE taken

Iterator_next(cur, df, dir, oc) ==
    IF ~cur.some
    THEN [ret |-> "None", current |-> cur, df |-> df, resolve |-> Call("-", ""),
          parse |-> Call("-", ""), slice |-> NoSlice, opened |-> {}, loaded |-> {}]
    ELSE LET e == get_entry(df, dir, cur.addr, oc)
             base == [ret |-> "None", current |-> Taken(cur), df |-> e.df,
                      resolve |-> Call(e.ret, e.err), parse |-> Call("-", ""),
                      slice |-> e.slice, opened |-> e.opened, loaded |-> e.loaded]
         IN
         IF e.ret = "Panic" THEN [base EXCEPT !.ret = "Panic"]
         ELSE IF e.ret = "Err" THEN base
         ELSE LET p == LazyBlockFileCacheEntry_get(e.df[e.slice.file], e.slice, oc) IN
              IF p.ret = "Panic"
              THEN [base EXCEPT !.ret = "Panic", !.parse = Call(p.ret, p.err)]
              ELSE [base EXCEPT !.ret = "Some", !.parse = Call(p.ret, p.err),
                                !.current = Follow(Taken(cur), p)]


\* ------------------------------------------------------------------- state

\* LazyBlockFileCacheEntryIterator::new: current = Some(start).  The other
\* fields record the iterator's history: the slices it yielded, whether the
\* directory was left alone since it was made, and whether a call failed to
\* resolve its address.
NewIterator(start) ==
    [current |-> Some(start), start |-> start, yielded |-> <<>>,
     stable |-> TRUE, failed |-> FALSE]

NoCall ==
    [op |-> "new", addr |-> ZeroAddr, ret |-> "-", err |-> "",
     resolve |-> Call("-", ""), parse |-> Call("-", ""), slice |-> NoSlice,
     opened |-> {}, loaded |-> {}]

\* no codec call is in progress
NoProbe == [op |-> "-"]

\* no entry view is held
NoView == [parse |-> "-"]

\* The directory after a call that opened the data files in `opened`:
\* fs::File::open opens for reading only and creates nothing.
AfterOpen_Created(dir, opened) ==
    [n \in FileNums |-> IF n \in opened /\ dir[n].kind = "missing"
                        THEN EmptyFile ELSE dir[n]]

AfterOpen(dir, opened) == dir

Counted(l, loaded) == [n \in FileNums |-> IF n \in loaded THEN l[n] + 1 ELSE l[n]]

\* ------------------------------------------------------ RefCell<DataFiles>

\* RefCell::borrow_mut with b mutable borrows live: a RefMut when there is
\* none, a panic (BorrowMutError) when there is one
borrow_mut(b) ==
    IF b = 0 THEN [ret |-> "Ok", live |-> b + 1] ELSE [ret |-> "Panic", live |-> b]

\* a call that returns before it reaches its borrow_mut
NoBorrow(b) == [ret |-> "-", live |-> b]

Dropped_Leaked(b) == b

\* `let mut data_files` is a local of the call: the RefMut is dropped when the
\* call returns, through `?` and through unwinding as well
Dropped(b) == b - 1

\* the live borrows after a call whose borrow_mut returned h
Released(h) == IF h.ret = "Ok" THEN Dropped(h.live) ELSE h.live

Init ==
    /\ directory \in [FileNums -> DiskStates]
    /\ data_files = [n \in FileNums |-> Vacant]
    /\ \E start \in StartAddrs : iter = NewIterator(start)
    /\ last = NoCall
    /\ loads = [n \in FileNums |-> 0]
    /\ writes = 0
    /\ crashed = FALSE
    /\ probe = NoProbe
    /\ entry = NoView
    /\ readers = <<>>
    /\ ext_files = {}
    /\ borrows = 0

IterNext ==
    /\ ~crashed
    /\ \E oc \in BOOLEAN :
       \E h \in {IF iter.current.some THEN borrow_mut(borrows) ELSE NoBorrow(borrows)} :
       \E r \in {IF h.ret = "Panic"
                 THEN [Iterator_next(None, data_files, directory, oc) EXCEPT
                         !.ret = "Panic", !.resolve = Call("Panic", "BorrowMutError")]
                 ELSE Iterator_next(iter.current, data_files, directory, oc)} :
       /\ iter' = [iter EXCEPT
                     !.current = r.current,
                     !.yielded = IF r.ret = "Some" /\ Len(@) < MaxYield
                                 THEN Append(@, r.slice) ELSE @,
                     !.failed = @ \/ r.resolve.ret = "Err"]
       /\ data_files' = r.df
       /\ loads' = Counted(loads, r.loaded)
       /\ last' = [op |-> "next", addr |-> iter.current.addr, ret |-> r.ret,
                   err |-> r.resolve.err, resolve |-> r.resolve, parse |-> r.parse,
                   slice |-> r.slice, opened |-> r.opened, loaded |-> r.loaded,
                   peak |-> h.live]
       /\ crashed' = (r.ret = "Panic")
       /\ directory' = AfterOpen(directory, r.opened)
       /\ borrows' = Released(h)
    /\ UNCHANGED <<writes, probe, view_vars>>

\* a caller's DataFiles::get_entry(addr)
GetEntry(addr) ==
    /\ ~crashed
    /\ \E oc \in BOOLEAN :
       LET e == get_entry(data_files, directory, addr, oc) IN
       /\ data_files' = e.df
       /\ loads' = Counted(loads, e.loaded)
       /\ last' = [op |-> "get_entry", addr |-> addr, ret |-> e.ret, err |-> e.err,
                   resolve |-> Call(e.ret, e.err), parse |-> Call("-", ""),
                   slice |-> e.slice, opened |-> e.opened, loaded |-> e.loaded]
       /\ crashed' = (e.ret = "Panic")
       /\ directory' = AfterOpen(directory, e.opened)
    /\ UNCHANGED <<iter, writes, probe, view_vars, borrows>>

\* the environment replaces, creates or removes data_<n>
DiskWrite(n, c) ==
    /\ ~crashed
    /\ writes < MaxWrites
    /\ directory[n] # c
    /\ directory' = [directory EXCEPT ![n] = c]
    /\ writes' = writes + 1
    /\ iter' = [iter EXCEPT !.stable = FALSE]
    /\ UNCHANGED <<data_files, last, loads, crashed, probe, view_vars, borrows>>

Next ==
    \/ IterNext
    \/ \E addr \in GetAddrs : GetEntry(addr)
    \/ \E n \in FileNums, c \in Rewrites : DiskWrite(n, c)

Spec == Init /\ [][Next]_vars


\* Directories of well-formed block files whose entries point across the two
\* files, walked from block 0 of data_0 by a caller that keeps calling next.
CrossInit ==
    /\ directory \in [FileNums -> GoodFiles]
    /\ \A n \in FileNums : \A b \in Blocks :
         LET nx == directory[n].next[b + 1] IN
         is_initialized(nx) => file_number(nx) # n
    /\ data_files = [n \in FileNums |-> Vacant]
    /\ iter = NewIterator(BlockAddr(0, 0))
    /\ last = NoCall
    /\ loads = [n \in FileNums |-> 0]
    /\ writes = 0
    /\ crashed = FALSE
    /\ probe = NoProbe
    /\ entry = NoView
    /\ readers = <<>>
    /\ ext_files = {}
    /\ borrows = 0

FairSpec == CrossInit /\ [][Next]_vars /\ WF_vars(IterNext)

\* ------------------------------------------------------------------ claims

\* what a request for file n sees: the memoized buffer, else the file on disk
View == [n \in FileNums |-> IF IsLoaded(data_files, n) THEN data_files[n] ELSE directory[n]]

\* the address resolves and its slice parses as a 256-byte entry
ResolvesAndParses(view, a) ==
    LET c == view[file_number(a)] IN
    /\ c.kind = "file"
    /\ c.len >= BLOCK_HEADER_SIZE
    /\ c.magic = BLOCK_MAGIC
    /\ c.entry_size = ENTRY_SIZE
    /\ BLOCK_HEADER_SIZE + (start_block(a) + 1) * ENTRY_SIZE <= c.len

StoredNext(view, a) == view[file_number(a)].next[start_block(a) + 1]

StoredSlice(a) ==
    BufferSlice(file_number(a), BLOCK_HEADER_SIZE + start_block(a) * ENTRY_SIZE, ENTRY_SIZE)

\* the chain a0, a1 = next(a0), ..., an; ok when it is acyclic, every ai
\* resolves and parses, and next(an) is uninitialized
RECURSIVE Chain(_, _, _)
Chain(view, a, seen) ==
    IF a \in seen \/ ~ResolvesAndParses(view, a)
    THEN [ok |-> FALSE, addrs |-> <<>>]
    ELSE IF StoredNext(view, a) = ZeroAddr
    THEN [ok |-> TRUE, addrs |-> <<a>>]
    ELSE LET rest == Chain(view, StoredNext(view, a), seen \cup {a}) IN
         [ok |-> rest.ok, addrs |-> <<a>> \o rest.addrs]

\* C1: over a directory that is left alone and in which the chain from the
\* starting address is acyclic, resolves and parses throughout and ends in an
\* uninitialized next, the iterator yields the entries stored at a0..an in
\* order (each from the file its address names), holds a(k+1) after k items,
\* is exhausted after n+1, and returns None only then; it never panics.
C1_ChainYieldedInOrder ==
    LET E == Chain(View, iter.start, {})
        k == Len(iter.yielded)
    IN
    (iter.stable /\ E.ok) =>
        /\ k <= Len(E.addrs)
        /\ \A i \in 1..k : iter.yielded[i] = StoredSlice(E.addrs[i])
        /\ iter.current = IF k < Len(E.addrs) THEN Some(E.addrs[k + 1]) ELSE None
        /\ last.op = "next" => last.ret \in {"Some", "None"}
        /\ (last.op = "next" /\ last.ret = "None") => k = Len(E.addrs)

\* C1 witness: a three-entry chain across both files was yielded and the
\* fourth call returned None
C1_Witness ==
    LET E == Chain(View, iter.start, {}) IN
    /\ iter.stable /\ E.ok
    /\ Len(E.addrs) = 3
    /\ Len(iter.yielded) = 3
    /\ iter.yielded[1].file # iter.yielded[2].file
    /\ last.op = "next" /\ last.ret = "None"


\* C2: on every directory, corrupt ones with a cyclic chain included, repeated
\* calls of next reach the end of the sequence: eventually the iterator holds
\* no current address (its calls return None from then on).
C2_EventuallyNone == <>(~iter.current.some)

\* the last call tried to resolve last.addr through the registry
Resolved ==
    \/ last.op = "get_entry"
    \/ last.op = "next" /\ last.resolve.ret # "-"

\* C3: a call of next whose address fails to resolve (Io: the file cannot be
\* opened or read; InvalidData: wrong magic) returns None with no item and
\* leaves the iterator without a current address, and every later call of next
\* on that iterator returns None.
C3_ResolveFailureEndsIterator ==
    /\ (last.op = "next" /\ last.resolve.ret = "Err") =>
            /\ last.ret = "None"
            /\ last.slice = NoSlice
            /\ last.resolve.err \in {"Io", "InvalidData"}
    /\ iter.failed =>
            /\ ~iter.current.some
            /\ last.op = "next" => last.ret = "None"

\* C3 witness: after one yielded item the next address failed to resolve, and
\* a later call of next found the iterator exhausted
C3_Witness ==
    /\ iter.failed
    /\ Len(iter.yielded) = 1
    /\ last.op = "next" /\ last.resolve.ret = "-" /\ last.ret = "None"

\* C4: a call of next whose slice cannot be parsed as an entry
\* (DataMisalignment) yields no item: it returns None.
C4_UnparseableYieldsNothing ==
    (last.op = "next" /\ last.parse.ret = "Err") => last.ret = "None"

\* C5: no call of next panics, whatever the data files hold.
C5_NextNeverPanics == ~(last.op = "next" /\ last.ret = "Panic")

C7_FailedLoadLeavesRegistry ==
    [][(directory' = directory /\ (last'.op = "get_entry" \/ iter.current.some)) =>
         LET n == OwningFile(last'.addr) IN
         /\ last'.resolve.err = "Io" =>
                /\ data_files' = data_files
                /\ directory[n].kind # "file"
                /\ last'.ret \in {"Err", "None"}
         /\ (~IsLoaded(data_files, n) /\ directory[n].kind = "file") =>
                /\ data_files' = [data_files EXCEPT ![n] = directory[n]]
                /\ last'.loaded = {n}
                /\ last'.resolve.err # "Io"]_vars

\* C7 witness: the iterator's first address failed on file 1 with nothing
\* loaded (an I/O error), the file then appeared, and a get_entry loaded it
C7_Witness ==
    /\ iter.failed /\ iter.yielded = <<>> /\ OwningFile(iter.start) = 1
    /\ writes = 1
    /\ last.op = "get_entry" /\ last.loaded = {1} /\ last.ret = "Ok"


\* C8: when the owning file's buffer holds at least 8192 bytes and its first
\* word is not 0xC104CAC3, resolving any address in it fails with InvalidData
\* and produces no slice (and next, which absorbs the error, returns None).
C8_BadMagicInvalidData ==
    LET n == OwningFile(last.addr) IN
    (/\ Resolved
     /\ IsLoaded(data_files, n)
     /\ data_files[n].len >= BLOCK_HEADER_SIZE
     /\ data_files[n].magic # BLOCK_MAGIC) =>
        /\ last.resolve = Call("Err", "InvalidData")
        /\ last.slice = NoSlice
        /\ last.op = "get_entry" => last.ret = "Err" /\ last.err = "InvalidData"
        /\ last.op = "next" => last.ret = "None"

\* C8 witness: get_entry on an address in a full-length file with the index
\* magic failed with InvalidData
C8_Witness ==
    /\ last.op = "get_entry" /\ last.err = "InvalidData"
    /\ data_files[OwningFile(last.addr)] = BadMagicFile

\* C9: when the owning file's buffer is shorter than 8192 bytes, resolving an
\* address in it fails with the DataMisalignment error value.
C9_ShortBufferMisalignment ==
    LET n == OwningFile(last.addr) IN
    (/\ Resolved
     /\ IsLoaded(data_files, n)
     /\ data_files[n].len < BLOCK_HEADER_SIZE) =>
        last.resolve = Call("Err", "DataMisalignment")

\* C10: when the owning file data_<file_number(addr)> is loaded and its header
\* is valid (8192 bytes, the block magic), resolving addr returns a slice of
\* that file's buffer whose start is 8192 + start_block(addr) * entry_size and
\* whose size is entry_size (as numbers: a usize equal to them).
C10_SliceOfOwningFile ==
    LET n == file_number(last.addr)
        es == data_files[n].entry_size
    IN
    (/\ Resolved
     /\ IsLoaded(data_files, n)
     /\ data_files[n].len >= BLOCK_HEADER_SIZE
     /\ data_files[n].magic = BLOCK_MAGIC) =>
        /\ last.resolve.ret = "Ok"
        /\ last.slice.file = n
        /\ last.slice.start >= 0
        /\ last.slice.start = BLOCK_HEADER_SIZE + start_block(last.addr) * es
        /\ last.slice.size >= 0
        /\ last.slice.size = es


\* ================================================================== codecs
\* The pure decoders, each applied once to an input drawn from a bounded set:
\* probe holds the input, then the call and its result.

\* ---------------------------------------------------------- address codec

\* raw 32-bit values: every file-type tag, flag bit 31 set and clear, file
\* numbers that need more than 16 and more than 24 bits
RawHis == {0, 1, 255, 256, 511, 4095, 4096, 8191, 28672, 32767,
           32768, 32769, 33023, 36863, 36864, 37121, 41215, 45056,
           49153, 53503, 57344, 61695, 65535}
RawLos == {0, 1, 32768, 65535}
RawAddrs == {U32(h, l) : h \in RawHis, l \in RawLos}

AddrInput(a) == [op |-> "addr", value |-> a]

\* CacheAddr::is_initialized applied to the input
IsInitialized ==
    /\ probe.op = "addr"
    /\ probe' = [op |-> "is_initialized", value |-> probe.value,
                 ret |-> is_initialized(probe.value)]
    /\ UNCHANGED <<borrows, directory, data_files, iter, last, loads, writes, crashed, view_vars>>

\* CacheAddr::file_number applied to the input
FileNumber ==
    /\ probe.op = "addr"
    /\ probe' = [op |-> "file_number", value |-> probe.value,
                 ret |-> file_number(probe.value)]
    /\ UNCHANGED <<borrows, directory, data_files, iter, last, loads, writes, crashed, view_vars>>


\* ------------------------------------------------------------- time codec
\* A u64 is written in base 10^6 as [a, b, c]: value = a*10^12 + b*10^6 + c
\* with b, c < 10^6; a count of seconds as [hi, lo]: value = hi*10^6 + lo.

MICROSEC_PER_SEC == 1000000
NANOSEC_PER_MICROSEC == 1000

U64(a, b, c) == [a |-> a, b |-> b, c |-> c]
Secs(hi, lo) == [hi |-> hi, lo |-> lo]

U64_MAX == U64(18446744, 73709, 551615)             \* 2^64 - 1

WIN_TO_UNIX_EPOCH_DELTA_SEC == Secs(11644, 473600)   \* 11_644_473_600
\* WIN_TO_UNIX_EPOCH_DELTA_SEC * MICROSEC_PER_SEC
WIN_TO_UNIX_EPOCH_DIFF_MICROSEC ==
    U64(WIN_TO_UNIX_EPOCH_DELTA_SEC.hi, WIN_TO_UNIX_EPOCH_DELTA_SEC.lo, 0)

U64Less(x, y) ==
    \/ x.a < y.a
    \/ x.a = y.a /\ x.b < y.b
    \/ x.a = y.a /\ x.b = y.b /\ x.c < y.c

\* x - y for y <= x, limb by limb with borrow
U64Minus(x, y) ==
    LET c == x.c - y.c
        bc == IF c < 0 THEN 1 ELSE 0
        b == x.b - y.b - bc
        bb == IF b < 0 THEN 1 ELSE 0
    IN U64(x.a - y.a - bb,
           IF b < 0 THEN b + MICROSEC_PER_SEC ELSE b,
           IF c < 0 THEN c + MICROSEC_PER_SEC ELSE c)

\* u64::checked_sub: None when the difference would be negative
checked_sub_Saturating(x, y) ==
    IF U64Less(x, y) THEN [some |-> TRUE, value |-> U64(0, 0, 0)]
                     ELSE [some |-> TRUE, value |-> U64Minus(x, y)]

checked_sub(x, y) ==
    IF U64Less(x, y) THEN [some |-> FALSE, value |-> U64(0, 0, 0)]
                     ELSE [some |-> TRUE, value |-> U64Minus(x, y)]

\* unix_micro_seconds / MICROSEC_PER_SEC
UnixSeconds(u) == Secs(u.a, u.b)

\* (unix_micro_seconds % MICROSEC_PER_SEC) * NANOSEC_PER_MICROSEC
UnixNanoseconds(u) == u.c * NANOSEC_PER_MICROSEC

\* chrono 0.4: the last second of the last day it represents
\* (262142-12-31T23:59:59Z) as Unix seconds, 8_210_266_876_799
CHRONO_MAX_SECS == Secs(8210266, 876799)

\* chrono's DateTime::from_timestamp(secs, nsecs) for secs >= 0: None when
\* the day is past the last one chrono represents, or nsecs is no
\* nanosecond count of a second (2*10^9 and above; 10^9 and above marks a
\* leap second, taken only in a minute's last second)
from_timestamp(secs, nsecs) ==
    /\ ~(CHRONO_MAX_SECS.hi < secs.hi
         \/ (CHRONO_MAX_SECS.hi = secs.hi /\ CHRONO_MAX_SECS.lo < secs.lo))
    /\ nsecs < 2000000000
    /\ (nsecs >= 1000000000 => secs.lo % 60 = 59)

NoInstant == [secs |-> Secs(0, 0), nsecs |-> 0]

\* WindowsEpochMicroseconds::into_datetime_utc
into_datetime_utc(r) ==
    LET d == checked_sub(r, WIN_TO_UNIX_EPOCH_DIFF_MICROSEC) IN
    IF ~d.some
    THEN [ret |-> "Err", err |-> "InvalidTimestamp", value |-> r, instant |-> NoInstant]
    ELSE LET unix_seconds == UnixSeconds(d.value)
             unix_nanoseconds == UnixNanoseconds(d.value)
         IN IF from_timestamp(unix_seconds, unix_nanoseconds)
            THEN [ret |-> "Ok", err |-> "", value |-> r,
                  instant |-> [secs |-> unix_seconds, nsecs |-> unix_nanoseconds]]
            ELSE [ret |-> "Err", err |-> "InvalidTimestamp", value |-> r,
                  instant |-> NoInstant]

\* raw timestamps around the Unix epoch, the test fixture, the last instant
\* chrono represents and 2^64 - 1
RawTimeAs == {0, 11643, 11644, 11645, 13360, 8221910, 8221911, 8221912, 18446744}
RawTimeBs == {0, 73709, 111021, 350399, 350400, 473599, 473600, 473601, 999999}
RawTimeCs == {0, 1, 551615, 811283, 999999}
RawTimes == {t \in {U64(a, b, c) : a \in RawTimeAs, b \in RawTimeBs, c \in RawTimeCs} :
                ~U64Less(U64_MAX, t)}

TimeInput(r) == [op |-> "time", value |-> r]

IntoDatetimeUtc ==
    /\ probe.op = "time"
    /\ probe' = [op |-> "into_datetime_utc", value |-> probe.value,
                 res |-> into_datetime_utc(probe.value)]
    /\ UNCHANGED <<borrows, directory, data_files, iter, last, loads, writes, crashed, view_vars>>


\* -------------------------------------------------------------- inline key
\* InlineCacheKey.key is a byte array of INLINE_KEY_SIZE bytes; KeyLen bytes
\* of it are modelled, drawn from: NUL, 'A', the lead byte 0xC3 and the
\* continuation byte 0xA9 of a two-byte sequence, and 0xFF, which no UTF-8
\* text holds.

KeyLen == 3

KeyBytes == {0, 65, 169, 195, 255}
Keys == [1..KeyLen -> KeyBytes]

\* std::str::from_utf8(..).is_ok() on those bytes
RECURSIVE Utf8From(_, _)
Utf8From(key, i) ==
    IF i > Len(key) THEN TRUE
    ELSE IF key[i] < 128 THEN Utf8From(key, i + 1)
    ELSE IF key[i] >= 194 /\ key[i] <= 223
         THEN /\ i + 1 <= Len(key)
              /\ key[i + 1] >= 128 /\ key[i + 1] <= 191
              /\ Utf8From(key, i + 2)
    ELSE FALSE

from_utf8(key) == Utf8From(key, 1)

\* impl Debug for InlineCacheKey: from_utf8(&self.key).unwrap()
InlineCacheKey_fmt_debug(key) == IF from_utf8(key) THEN "Ok" ELSE "Panic"

\* impl Display for InlineCacheKey: from_utf8(&self.key).map_err(|_| fmt::Error)?
InlineCacheKey_fmt_display(key) == IF from_utf8(key) THEN "Ok" ELSE "Err"

KeyInput(k) == [op |-> "key", value |-> k]

FmtDebug ==
    /\ probe.op = "key"
    /\ probe' = [op |-> "fmt_debug", value |-> probe.value,
                 ret |-> InlineCacheKey_fmt_debug(probe.value)]
    /\ UNCHANGED <<borrows, directory, data_files, iter, last, loads, writes, crashed, view_vars>>

FmtDisplay ==
    /\ probe.op = "key"
    /\ probe' = [op |-> "fmt_display", value |-> probe.value,
                 ret |-> InlineCacheKey_fmt_display(probe.value)]
    /\ UNCHANGED <<borrows, directory, data_files, iter, last, loads, writes, crashed, view_vars>>

\* ------------------------------------------------- the codecs' state machine

CodecInit ==
    /\ directory = [n \in FileNums |-> Missing]
    /\ data_files = [n \in FileNums |-> Vacant]
    /\ iter = NewIterator(ZeroAddr)
    /\ last = NoCall
    /\ loads = [n \in FileNums |-> 0]
    /\ writes = 0
    /\ crashed = FALSE
    /\ entry = NoView
    /\ readers = <<>>
    /\ ext_files = {}
    /\ borrows = 0
    /\ probe \in {AddrInput(a) : a \in RawAddrs}
                 \cup {TimeInput(r) : r \in RawTimes}
                 \cup {KeyInput(k) : k \in Keys}

CodecNext ==
    \/ IsInitialized
    \/ FileNumber
    \/ IntoDatetimeUtc
    \/ FmtDebug
    \/ FmtDisplay

CodecSpec == CodecInit /\ [][CodecNext]_vars

\* the i-th bit of a raw 32-bit value, bit 0 the least significant
Bit(a, i) == IF i < 16 THEN (a.lo \div (2 ^ i)) % 2 ELSE (a.hi \div (2 ^ (i - 16))) % 2

\* the number written by bits from..to of a
RECURSIVE Field(_, _, _)
Field(a, from, to) ==
    IF to < from THEN 0 ELSE Bit(a, from) + 2 * Field(a, from + 1, to)

\* C15: is_initialized returns true exactly when bit 31 of the raw value is
\* set.
C15_InitializedIffBit31 ==
    probe.op = "is_initialized" => (probe.ret <=> Bit(probe.value, 31) = 1)

\* C16: for every raw value, file_number is the low 28 bits when the tag in
\* bits 28-30 is External (0) and bits 16-23 for every other tag.
C16_FileNumberByTag ==
    probe.op = "file_number" =>
        probe.ret = IF Field(probe.value, 28, 30) = External
                    THEN Field(probe.value, 0, 27)
                    ELSE Field(probe.value, 16, 23)

\* C16 witness: an External address whose file number needs more than 24
\* bits was decoded
C16_Witness ==
    /\ probe.op = "file_number"
    /\ Field(probe.value, 28, 30) = External
    /\ probe.ret >= 2 ^ 24

\* seconds + delta, as a raw timestamp with the given microseconds
Rebuilt(secs, micros) ==
    LET b == secs.lo + WIN_TO_UNIX_EPOCH_DELTA_SEC.lo IN
    U64(secs.hi + WIN_TO_UNIX_EPOCH_DELTA_SEC.hi + (b \div MICROSEC_PER_SEC),
        b % MICROSEC_PER_SEC, micros)

\* C17: on a raw value r below 11644473600 * 10^6 the decode fails with
\* InvalidTimestamp(r); otherwise it either produces the instant whose Unix
\* seconds s and nanoseconds n satisfy (s + 11644473600) * 10^6 + n / 1000 = r
\* with n a multiple of 1000 below 10^9, or fails with InvalidTimestamp(r),
\* and that only when the seconds are past the last instant representable.
C17_TimeDecode ==
    probe.op = "into_datetime_utc" =>
        LET r == probe.value
            res == probe.res
        IN
        /\ res.ret \in {"Ok", "Err"}
        /\ res.ret = "Err" => res.err = "InvalidTimestamp" /\ res.value = r
        /\ U64Less(r, U64(11644, 473600, 0)) => res.ret = "Err"
        /\ res.ret = "Ok" =>
              /\ res.instant.nsecs % 1000 = 0
              /\ res.instant.nsecs >= 0 /\ res.instant.nsecs < 1000000000
              /\ res.instant.secs.lo >= 0 /\ res.instant.secs.lo < 1000000
              /\ res.instant.secs.hi >= 0
              /\ Rebuilt(res.instant.secs, res.instant.nsecs \div 1000) = r
        /\ (res.ret = "Err" /\ ~U64Less(r, U64(11644, 473600, 0))) =>
              U64Less(U64(8221911, 350399, 999999), r)

\* C17 witness: the fixture 13_360_111_021_811_283 decoded to Unix second
\* 1_715_637_421 and 811_283_000 ns
C17_Witness ==
    /\ probe.op = "into_datetime_utc"
    /\ probe.value = U64(13360, 111021, 811283)
    /\ probe.res.ret = "Ok"
    /\ probe.res.instant = [secs |-> Secs(1715, 637421), nsecs |-> 811283000]

\* C18: formatting an inline key, with Display or with Debug, returns (a
\* value or a formatting error) whatever bytes the key holds: it never
\* panics.
C18_KeyFormattingNeverPanics ==
    probe.op \in {"fmt_debug", "fmt_display"} => probe.ret # "Panic"


\* C20: every address next hands to DataFiles::get_entry is initialized, the
\* starting address included: an iterator started at an uninitialized
\* address yields no item and its calls load no file.
C20_OnlyInitializedResolved ==
    /\ (last.op = "next" /\ last.resolve.ret # "-") => is_initialized(last.addr)
    /\ ~is_initialized(iter.start) =>
          /\ iter.yielded = <<>>
          /\ last.op = "next" => last.loaded = {}


\* ============================================================== entry view
\* A caller holds one entry view (a LazyBlockFileCacheEntry the iterator
\* yielded).  entry.parse is what the view's get() returns; when it is "Ok"
\* the other fields are those of the record parsed.

Block1k == 3
Block4k == 4

Slots == 1..4         \* data_size: [i32; 4], data_addr: [CacheAddr; 4]

EntryView(parse, rn, addrs, sizes) ==
    [parse |-> parse, rankings_node |-> rn, data_addr |-> addrs,
     data_size |-> sizes, consumed |-> FALSE]

\* a reader as constructed: read_offset 0 (block), file None (external).
\* pos is the position of the external reader's open file; opens counts
\* that reader's successful File::open calls and failed tells that one of
\* its File::open calls failed.
Reader(kind, addr, size) ==
    [ret |-> "Ok", err |-> "", kind |-> kind, addr |-> addr, size |-> size,
     read_offset |-> 0, open |-> FALSE, pos |-> 0, opens |-> 0, failed |-> FALSE]

ExternalFileReader_new(addr) == Reader("external", addr, 0)

BlockFileStreamReader_new(addr, size) == Reader("block", addr, size)

SlotErr(err) == [Reader("-", ZeroAddr, 0) EXCEPT !.ret = "Err", !.err = err]

\* the closure mapped over data_addr zipped with data_size
SlotReader(addr, size) ==
    IF file_type(addr) = External THEN ExternalFileReader_new(addr)
    ELSE IF file_type(addr) \in {Block1k, Block256, Block4k}
         THEN BlockFileStreamReader_new(addr, AsUsize(size))
    ELSE SlotErr("InvalidState")

\* .collect() into a Vec of results: every slot's own result, in order
Collected_FailFast(slots) ==
    IF \E i \in DOMAIN slots : slots[i].ret = "Err"
    THEN [i \in DOMAIN slots |-> SlotErr("InvalidState")]
    ELSE slots

Collected(slots) == slots

\* LazyBlockFileCacheEntry::stream_readers
stream_readers(e) ==
    IF e.parse = "Panic" THEN [ret |-> "Panic", err |-> "", readers |-> <<>>]
    ELSE IF e.parse # "Ok" THEN [ret |-> "Err", err |-> "InvalidState", readers |-> <<>>]
    ELSE [ret |-> "Ok", err |-> "",
          readers |-> Collected([i \in Slots |-> SlotReader(e.data_addr[i], e.data_size[i])])]

\* the parse outcome of the view's get(), as a call record
ParseCall(e) ==
    Call(e.parse, IF e.parse = "Err" THEN "DataMisalignment" ELSE "")

\* entry.stream_readers(): consumes the view
StreamReaders ==
    /\ ~crashed
    /\ entry.parse # "-"
    /\ ~entry.consumed
    /\ LET r == stream_readers(entry) IN
       /\ readers' = r.readers
       /\ last' = [op |-> "stream_readers", addr |-> ZeroAddr, ret |-> r.ret,
                   err |-> r.err, resolve |-> Call("-", ""), parse |-> ParseCall(entry),
                   slice |-> NoSlice, opened |-> {}, loaded |-> {}]
       /\ crashed' = (r.ret = "Panic")
    /\ entry' = [entry EXCEPT !.consumed = TRUE]
    /\ UNCHANGED <<borrows, directory, data_files, iter, loads, writes, probe, ext_files>>

\* data_addr values: each of the three block tags, External with and
\* without the initialized bit, Rankings and two of the reserved tags
SlotAddrs == {ZeroAddr, ExternalAddr(1), BlockAddr(0, 0), TypedAddr(Block1k, 1, 0),
              TypedAddr(Block4k, 0, 1), TypedAddr(Rankings, 1, 0),
              TypedAddr(5, 0, 0), TypedAddr(7, 1, 1)}
SizeProfiles == {<<0, 100, 0 - 1, 600>>, <<512, 0, 7, 300>>}

DispatchInit ==
    /\ directory = [n \in FileNums |-> Missing]
    /\ data_files = [n \in FileNums |-> Vacant]
    /\ iter = NewIterator(ZeroAddr)
    /\ last = NoCall
    /\ loads = [n \in FileNums |-> 0]
    /\ writes = 0
    /\ crashed = FALSE
    /\ probe = NoProbe
    /\ readers = <<>>
    /\ ext_files = {}
    /\ borrows = 0
    /\ \E p \in {"Ok", "Err", "Panic"} :
       \E addrs \in [Slots -> SlotAddrs], sizes \in SizeProfiles :
          /\ p # "Ok" => addrs = [i \in Slots |-> ZeroAddr]
          /\ entry = EntryView(p, ZeroAddr, addrs, sizes)

DispatchNext == StreamReaders

DispatchSpec == DispatchInit /\ [][DispatchNext]_vars

\* what the tag in bits 28-30 of a slot's address asks for
SlotKind(a) ==
    LET tag == Field(a, 28, 30) IN
    IF tag = 0 THEN "external" ELSE IF tag \in {2, 3, 4} THEN "block" ELSE "-"

\* C11: on a parseable entry stream_readers returns four results in slot
\* order, and slot i is decided by data_addr[i] alone: an external reader on
\* that address for tag 0, a block reader on that address bounded to
\* data_size[i] for tags 2, 3 and 4, and Err(InvalidState) for any other tag,
\* whatever the other slots hold.
C11_SlotsIndependent ==
    (last.op = "stream_readers" /\ entry.parse = "Ok") =>
        /\ last.ret = "Ok"
        /\ DOMAIN readers = Slots
        /\ \A i \in Slots :
             LET a == entry.data_addr[i]
                 rd == readers[i]
             IN
             /\ SlotKind(a) = "external" =>
                   rd.ret = "Ok" /\ rd.kind = "external" /\ rd.addr = a /\ ~rd.open
             /\ SlotKind(a) = "block" =>
                   /\ rd.ret = "Ok" /\ rd.kind = "block" /\ rd.addr = a
                   /\ rd.size = entry.data_size[i] /\ rd.read_offset = 0
             /\ SlotKind(a) = "-" => rd.ret = "Err" /\ rd.err = "InvalidState"

\* C11 witness: one call returned an error slot between an external reader
\* and a block reader
C11_Witness ==
    /\ last.op = "stream_readers" /\ last.ret = "Ok"
    /\ readers[1].kind = "external"
    /\ readers[2].ret = "Err"
    /\ readers[3].kind = "block" /\ readers[3].size = 7
    /\ readers[4].kind = "block"


\* ---------------------------------------------------------- stream readers

ReadLens == {0, 200}      \* buf.len() of a read call

ExtFileLen == 10                \* bytes held by each f_<hex> file

\* FileType::block_size: the record size of the three block tags; no block
\* size is defined for the other tags
block_size(t) ==
    IF t = Block256 THEN [ok |-> TRUE, size |-> 256]
    ELSE IF t = Block1k THEN [ok |-> TRUE, size |-> 1024]
    ELSE IF t = Block4k THEN [ok |-> TRUE, size |-> 4096]
    ELSE [ok |-> FALSE, size |-> 0]

\* std::cmp::min on usize
UMin(a, b) == IF ULess(a, b) THEN a ELSE b

\* min(buf.len(), self.size - self.read_offset)
ToBeRead_Unbounded(l, size, read_offset) == l

ToBeRead(l, size, read_offset) == UMin(l, size - read_offset)

\* the early return of read: nothing is left of the stream
Exhausted(rd) == ~ULess(rd.read_offset, rd.size)

NoRead(rd, df) ==
    [ret |-> "Ok", err |-> "", n |-> 0, from |-> 0, rd |-> rd, df |-> df,
     opened |-> {}, loaded |-> {}]

\* <BlockFileStreamReader as Read>::read with a buffer of l bytes
BlockFileStreamReader_read(rd, df, dir, l) ==
    IF Exhausted(rd) THEN NoRead(rd, df)
    ELSE
    LET n == file_number(rd.addr)
        g == DataFiles_get(df, dir, n)
        none == [NoRead(rd, g.df) EXCEPT !.opened = g.opened, !.loaded = g.loaded]
    IN
    IF g.ret = "Err" THEN [none EXCEPT !.ret = "Err", !.err = g.err]
    ELSE
    LET bs == block_size(file_type(rd.addr)) IN
    IF ~bs.ok THEN [none EXCEPT !.ret = "Err", !.err = "InvalidData"]
    ELSE
    LET start_addr == BLOCK_HEADER_SIZE + AsUsize(start_block(rd.addr)) * bs.size
                      + rd.read_offset
        to_be_read == ToBeRead(l, rd.size, rd.read_offset)
        end_addr == start_addr + to_be_read
    IN
    IF ULess(g.df[n].len, end_addr) THEN [none EXCEPT !.ret = "Panic"]
    ELSE [none EXCEPT !.n = to_be_read, !.from = start_addr,
                      !.rd = [rd EXCEPT !.read_offset = @ + to_be_read]]

\* a read on the block reader in slot i
ReadBlock(i, l) ==
    /\ ~crashed
    /\ i \in DOMAIN readers
    /\ readers[i].ret = "Ok" /\ readers[i].kind = "block"
    /\ LET h == IF Exhausted(readers[i]) THEN NoBorrow(borrows)
                ELSE borrow_mut(borrows)
           r == IF h.ret = "Panic"
                THEN [NoRead(readers[i], data_files) EXCEPT
                        !.ret = "Panic", !.err = "BorrowMutError"]
                ELSE BlockFileStreamReader_read(readers[i], data_files, directory, l)
       IN
       /\ readers' = [readers EXCEPT ![i] = r.rd]
       /\ data_files' = r.df
       /\ loads' = Counted(loads, r.loaded)
       /\ last' = [op |-> "read_block", addr |-> readers[i].addr, ret |-> r.ret,
                   err |-> r.err, resolve |-> Call("-", ""), parse |-> Call("-", ""),
                   slice |-> NoSlice, opened |-> r.opened, loaded |-> r.loaded,
                   slot |-> i, len |-> l, n |-> r.n, from |-> r.from,
                   before |-> readers[i].read_offset, peak |-> h.live,
                   disk |-> directory[file_number(readers[i].addr)]]
       /\ crashed' = (r.ret = "Panic")
       /\ directory' = AfterOpen(directory, r.opened)
       /\ borrows' = Released(h)
    /\ UNCHANGED <<iter, writes, probe, entry, ext_files>>

\* the sixteen lowercase hexadecimal digits
HexChars == <<"0", "1", "2", "3", "4", "5", "6", "7",
              "8", "9", "a", "b", "c", "d", "e", "f">>

\* {:x}: the digits of n, most significant first
RECURSIVE LowerHex(_)
LowerHex(n) ==
    IF n < 16 THEN <<HexChars[n + 1]>>
    ELSE Append(LowerHex(n \div 16), HexChars[(n % 16) + 1])

\* {:0>w}: zeros on the left up to width w; longer text is left whole
RECURSIVE PadLeft(_, _)
PadLeft(digits, w) ==
    IF Len(digits) >= w THEN digits ELSE PadLeft(<<"0">> \o digits, w)

NAME_WIDTH == 6

\* format!("f_{:0>6x}", n): the name's digits after "f_"
ExtName(n) == PadLeft(LowerHex(n), NAME_WIDTH)

\* File::open in the else branch of read succeeded: self.file.replace(..)
Opened_Forgotten(rd) == [rd EXCEPT !.opens = @ + 1]

Opened(rd) == [rd EXCEPT !.open = TRUE, !.pos = 0, !.opens = @ + 1]

\* BufReader<File>::read with a buffer of l bytes
FileRead(rd, l) ==
    LET n == IF l < ExtFileLen - rd.pos THEN l ELSE ExtFileLen - rd.pos IN
    [ret |-> "Ok", err |-> "", n |-> n, rd |-> [rd EXCEPT !.pos = @ + n],
     open |-> "-", name |-> <<>>]

\* <ExternalFileReader as Read>::read with a buffer of l bytes; open tells
\* whether the call tried File::open and how that ended
ExternalFileReader_read(rd, files, l) ==
    IF rd.open THEN FileRead(rd, l)
    ELSE LET file_name == ExtName(file_number(rd.addr)) IN
         IF file_name \notin files
         THEN [ret |-> "Err", err |-> "Io", n |-> 0,
               rd |-> [rd EXCEPT !.failed = TRUE],
               open |-> "failed", name |-> file_name]
         ELSE [FileRead(Opened(rd), l) EXCEPT !.open = "ok", !.name = file_name]

\* a read on the external reader in slot i
ReadExternal(i, l) ==
    /\ ~crashed
    /\ i \in DOMAIN readers
    /\ readers[i].ret = "Ok" /\ readers[i].kind = "external"
    /\ LET r == ExternalFileReader_read(readers[i], ext_files, l) IN
       /\ readers' = [readers EXCEPT ![i] = r.rd]
       /\ last' = [op |-> "read_external", addr |-> readers[i].addr, ret |-> r.ret,
                   err |-> r.err, resolve |-> Call("-", ""), parse |-> Call("-", ""),
                   slice |-> NoSlice, opened |-> {}, loaded |-> {},
                   slot |-> i, len |-> l, n |-> r.n, open |-> r.open,
                   name |-> r.name, was_open |-> readers[i].open]
    /\ UNCHANGED <<borrows, directory, data_files, iter, loads, writes, crashed, probe,
                   entry, ext_files>>


\* ----------------------------------------------------------- rankings node

\* the early return of get_rankings_node: the rankings address is not set
NotSet_Never(rn) == FALSE

NotSet(rn) == ~is_initialized(rn)

\* LazyBlockFileCacheEntry::get_rankings_node
get_rankings_node(e, df, dir, oc) ==
    LET none == [ret |-> "Err", err |-> "", slice |-> NoSlice, df |-> df,
                 opened |-> {}, loaded |-> {}, resolve |-> Call("-", "")]
    IN
    IF e.parse = "Panic" THEN [none EXCEPT !.ret = "Panic"]
    ELSE IF e.parse # "Ok" THEN [none EXCEPT !.err = "DataMisalignment"]
    ELSE IF NotSet(e.rankings_node) THEN [none EXCEPT !.err = "InvalidData"]
    ELSE LET g == get_entry(df, dir, e.rankings_node, oc) IN
         [ret |-> g.ret, err |-> g.err, slice |-> g.slice, df |-> g.df,
          opened |-> g.opened, loaded |-> g.loaded, resolve |-> Call(g.ret, g.err)]

\* entry.get_rankings_node()
GetRankingsNode ==
    /\ ~crashed
    /\ entry.parse # "-"
    /\ ~entry.consumed
    /\ \E oc \in BOOLEAN :
       LET h == IF entry.parse = "Ok" /\ ~NotSet(entry.rankings_node)
                THEN borrow_mut(borrows) ELSE NoBorrow(borrows)
           r == IF h.ret = "Panic"
                THEN [ret |-> "Panic", err |-> "BorrowMutError", slice |-> NoSlice,
                      df |-> data_files, opened |-> {}, loaded |-> {},
                      resolve |-> Call("-", "")]
                ELSE get_rankings_node(entry, data_files, directory, oc)
       IN
       /\ data_files' = r.df
       /\ loads' = Counted(loads, r.loaded)
       /\ last' = [op |-> "get_rankings_node", addr |-> entry.rankings_node,
                   ret |-> r.ret, err |-> r.err, resolve |-> r.resolve,
                   parse |-> ParseCall(entry), slice |-> r.slice,
                   opened |-> r.opened, loaded |-> r.loaded, peak |-> h.live]
       /\ crashed' = (r.ret = "Panic")
       /\ directory' = AfterOpen(directory, r.opened)
       /\ borrows' = Released(h)
    /\ UNCHANGED <<iter, writes, probe, entry, readers, ext_files>>

\* ------------------------------------------- the entry view's state machine

\* the environment creates or removes an f_<hex> file
ExtWrite(name) ==
    /\ ~crashed
    /\ writes < MaxWrites
    /\ ext_files' = IF name \in ext_files THEN ext_files \ {name}
                    ELSE ext_files \cup {name}
    /\ writes' = writes + 1
    /\ UNCHANGED <<borrows, directory, data_files, iter, last, loads, crashed, probe,
                   entry, readers>>

BigExternal == U32(32768 + 256, 0)       \* External, file number 0x1000000

\* the f_ files at the start: none, those of files 1 and 0x1000000, or a
\* file named with the unpadded digits of 1; the one the environment changes
ExtDirs == {{}, {ExtName(1), ExtName(file_number(BigExternal))}, {LowerHex(1)}}
ExtNames == {ExtName(1)}

PlainFile == File(FullLen, BLOCK_MAGIC, ENTRY_SIZE, <<ZeroAddr, ZeroAddr>>)
ViewDirs == {<<d0, d1>> : d0 \in {PlainFile, EmptyFile, Missing},
                           d1 \in {PlainFile, RankingsFile, BadMagicFile}}

ViewEntries ==
    {EntryView("Ok", TypedAddr(Rankings, 1, 1),
               <<BlockAddr(0, 0), ExternalAddr(1), TypedAddr(Rankings, 1, 0), ZeroAddr>>,
               <<300, 10, 0, 0>>),
     EntryView("Ok", ZeroAddr,
               <<TypedAddr(Block1k, 1, 0), BigExternal, BlockAddr(0, 1), TypedAddr(5, 0, 0)>>,
               <<512, 10, 0 - 1, 0>>),
     EntryView("Ok", U32(0, 1),
               <<TypedAddr(Block4k, 0, 1), ExternalAddr(1), BlockAddr(1, 1), ZeroAddr>>,
               <<100, 0, 256, 0>>),
     EntryView("Err", ZeroAddr, [i \in Slots |-> ZeroAddr], [i \in Slots |-> 0]),
     EntryView("Panic", ZeroAddr, [i \in Slots |-> ZeroAddr], [i \in Slots |-> 0])}

ViewInit ==
    /\ \E d \in ViewDirs : directory = [n \in FileNums |-> d[n + 1]]
    /\ data_files = [n \in FileNums |-> Vacant]
    /\ iter = NewIterator(BlockAddr(0, 0))
    /\ last = NoCall
    /\ loads = [n \in FileNums |-> 0]
    /\ writes = 0
    /\ crashed = FALSE
    /\ probe = NoProbe
    /\ entry \in ViewEntries
    /\ readers = <<>>
    /\ ext_files \in ExtDirs
    /\ borrows = 0

ViewNext ==
    \/ StreamReaders
    \/ GetRankingsNode
    \/ \E i \in Slots, l \in ReadLens : ReadBlock(i, l)
    \/ \E i \in Slots, l \in ReadLens : ReadExternal(i, l)
    \/ IterNext
    \/ GetEntry(BlockAddr(1, 1))
    \/ \E name \in ExtNames : ExtWrite(name)

ViewSpec == ViewInit /\ [][ViewNext]_vars


\* C12: a read on a block reader with address addr and size S, when the
\* owning file is loaded and holds the whole range, returns
\* min(len, S - read_offset), delivers the bytes of the buffer from
\* 8192 + start_block(addr) * block_size + read_offset on, and advances
\* read_offset by what it returned, so that successive reads deliver bytes
\* 0..S-1 of the range in order; read_offset stays within 0..S and a read at
\* read_offset = S returns 0.
C12_BlockReadSequence ==
    /\ \A i \in DOMAIN readers :
         (readers[i].kind = "block" /\ readers[i].size >= 0) =>
             (readers[i].read_offset >= 0 /\ readers[i].read_offset <= readers[i].size)
    /\ last.op = "read_block" =>
         LET rd == readers[last.slot]
             n == file_number(rd.addr)
             base == BLOCK_HEADER_SIZE
                     + start_block(rd.addr) * block_size(file_type(rd.addr)).size
             rest == rd.size - last.before
         IN
         (/\ IsLoaded(data_files, n)
          /\ rd.size >= 0
          /\ data_files[n].len >= base + rd.size) =>
             /\ last.ret = "Ok"
             /\ last.n = IF last.len <= rest THEN last.len ELSE rest
             /\ last.n > 0 => last.from = base + last.before
             /\ rd.read_offset = last.before + last.n
             /\ last.before = rd.size => last.n = 0

\* C12 witness: the second read of a 300-byte stream with a 200-byte buffer
\* returned the last 100 bytes, from offset 8192 + 200 of data_0
C12_Witness ==
    /\ last.op = "read_block"
    /\ last.len = 200 /\ last.before = 200 /\ last.n = 100
    /\ last.from = BLOCK_HEADER_SIZE + 200
    /\ readers[last.slot].read_offset = readers[last.slot].size

\* C13: on a parseable entry, get_rankings_node fails with InvalidData and
\* opens and loads no file when the rankings_node address is not initialized;
\* otherwise its outcome is that of resolving the address: an I/O error when
\* the owning file cannot be loaded, InvalidData on a wrong magic, and on a
\* valid file the slice of entry_size bytes at
\* 8192 + start_block * entry_size of the file file_number selects.
C13_RankingsNodeResolution ==
    (last.op = "get_rankings_node" /\ entry.parse = "Ok") =>
        LET rn == entry.rankings_node
            n == file_number(rn)
            buf == data_files[n]
        IN
        /\ ~is_initialized(rn) =>
              /\ last.ret = "Err" /\ last.err = "InvalidData"
              /\ last.opened = {} /\ last.loaded = {}
              /\ last.slice = NoSlice
        /\ is_initialized(rn) =>
              /\ ~IsLoaded(data_files, n) =>
                    /\ last.ret = "Err" /\ last.err = "Io"
                    /\ directory[n].kind # "file"
              /\ (IsLoaded(data_files, n) /\ buf.len >= BLOCK_HEADER_SIZE
                  /\ buf.magic # BLOCK_MAGIC) =>
                    last.ret = "Err" /\ last.err = "InvalidData" /\ last.slice = NoSlice
              /\ (IsLoaded(data_files, n) /\ buf.len >= BLOCK_HEADER_SIZE
                  /\ buf.magic = BLOCK_MAGIC) =>
                    /\ last.ret = "Ok"
                    /\ last.slice = BufferSlice(n, BLOCK_HEADER_SIZE
                                                   + start_block(rn) * buf.entry_size,
                                                buf.entry_size)

\* C13 witness: the rankings node at block 1 of a file of 36-byte records
\* was resolved by a call that loaded the file
C13_Witness ==
    /\ last.op = "get_rankings_node" /\ last.ret = "Ok"
    /\ last.loaded = {1}
    /\ last.slice = BufferSlice(1, BLOCK_HEADER_SIZE + RANKINGS_SIZE, RANKINGS_SIZE)

\* the number a string of hexadecimal digits writes
RECURSIVE HexValue(_)
HexValue(digits) ==
    IF digits = <<>> THEN 0
    ELSE LET d == CHOOSE k \in 0..15 : HexChars[k + 1] = digits[Len(digits)] IN
         16 * HexValue(SubSeq(digits, 1, Len(digits) - 1)) + d

\* an external reader opens nothing when constructed, tries File::open
\* exactly in the reads that find it unopened, holds the file from a
\* successful open on, and returns the I/O error of a failed open and stays
\* unopened
LazyOpen ==
    /\ last.op = "stream_readers" =>
          \A i \in DOMAIN readers :
              readers[i].kind = "external" => ~readers[i].open /\ readers[i].opens = 0
    /\ \A i \in DOMAIN readers :
          /\ readers[i].opens <= 1
          /\ readers[i].open <=> readers[i].opens = 1
    /\ last.op = "read_external" =>
          /\ last.was_open => last.open = "-" /\ last.ret = "Ok"
          /\ ~last.was_open => last.open \in {"ok", "failed"}
          /\ last.open = "failed" =>
                /\ last.ret = "Err" /\ last.err = "Io"
                /\ ~readers[last.slot].open
                /\ writes = 0 => last.name \notin ext_files
          /\ last.open = "ok" =>
                /\ last.ret = "Ok" /\ readers[last.slot].open
                /\ writes = 0 => last.name \in ext_files

\* C14 as stated: the reader opens lazily, and the file it opens is named
\* f_ followed by the file number as exactly six lowercase hexadecimal
\* digits.
C14_LazyOpenSixDigits ==
    /\ LazyOpen
    /\ (last.op = "read_external" /\ last.open # "-") =>
          /\ Len(last.name) = 6
          /\ HexValue(last.name) = file_number(last.addr)

\* C14: the reader opens lazily, and the file it opens is named f_ followed
\* by the file number in lowercase hexadecimal, padded with zeros on the
\* left to six digits (a file number of 0x1000000 or more is written with
\* its seven digits).
C14_LazyOpen ==
    /\ LazyOpen
    /\ (last.op = "read_external" /\ last.open # "-") =>
          /\ Len(last.name) >= 6
          /\ Len(last.name) > 6 => last.name[1] # "0"
          /\ HexValue(last.name) = file_number(last.addr)

\* C14 witness: a read failed to open f_000001, the file appeared, and a
\* later read on the same reader opened it
C14_Witness ==
    /\ last.op = "read_external" /\ last.open = "ok"
    /\ last.name = <<"0", "0", "0", "0", "0", "1">>
    /\ readers[last.slot].failed
    /\ readers[last.slot].opens = 1

\* C19: no operation of the core changes the cache directory: a step that is
\* not the environment's leaves the data_<n> files and the f_<hex> files as
\* they were.
C19_DirectoryUntouched ==
    [][writes' = writes => (directory' = directory /\ ext_files' = ext_files)]_vars

\* C19 witness: the iterator's call tried to open data_0, which is missing
\* and stays missing, after an external reader opened its file
C19_Witness ==
    /\ last.op = "next" /\ last.opened = {0}
    /\ directory[0] = Missing
    /\ \E i \in DOMAIN readers : readers[i].open
    /\ loads[1] = 1


\* C22: a read on a block reader never panics, whatever the file and the
\* reader's size: a read whose range does not fit the loaded buffer returns
\* an error value, and a read that fails leaves read_offset as it was.
C22_BlockReadNeverPanics ==
    last.op = "read_block" =>
        /\ last.ret \in {"Ok", "Err"}
        /\ last.ret = "Err" => readers[last.slot].read_offset = last.before


\* ------------------------------------- objects sharing one registry, and the
\* ------------------------------------- environment changing the data files

\* data_0 with a chain of two entries: block 0, then block 1
ChainFile == File(FullLen, BLOCK_MAGIC, ENTRY_SIZE, <<BlockAddr(0, 1), ZeroAddr>>)

\* the entry views whose header parsed
SharedEntries == {e \in ViewEntries : e.parse = "Ok"}

\* An iterator at block 0 of data_0, an entry view and (once stream_readers
\* ran) its readers, all holding the same Rc<RefCell<DataFiles>>.
SharedInit ==
    /\ \E d1 \in {PlainFile, RankingsFile} :
         directory = [n \in FileNums |-> IF n = 0 THEN ChainFile ELSE d1]
    /\ data_files = [n \in FileNums |-> Vacant]
    /\ iter = NewIterator(BlockAddr(0, 0))
    /\ last = NoCall
    /\ loads = [n \in FileNums |-> 0]
    /\ writes = 0
    /\ crashed = FALSE
    /\ probe = NoProbe
    /\ entry \in SharedEntries
    /\ readers = <<>>
    /\ ext_files = {}
    /\ borrows = 0

SharedNext ==
    \/ IterNext
    \/ StreamReaders
    \/ GetRankingsNode
    \/ \E i \in Slots, l \in ReadLens : ReadBlock(i, l)
    \/ \E n \in FileNums, c \in Rewrites : DiskWrite(n, c)

SharedSpec == SharedInit /\ [][SharedNext]_vars

\* the calls that borrow the registry
BorrowingOps == {"next", "read_block", "get_rankings_node"}

\* C23: in every interleaving of next, get_rankings_node and block reads on
\* objects sharing one registry, no call finds the registry mutably borrowed:
\* between calls no borrow is live, within a call at most one is, and no call
\* panics with a BorrowMutError.
C23_NoReentrantBorrow ==
    /\ borrows = 0
    /\ last.op \in BorrowingOps =>
           /\ last.peak <= 1
           /\ last.err # "BorrowMutError"
           /\ last.resolve.err # "BorrowMutError"

\* C23 witness: after the iterator yielded its first entry and with its next
\* address pending, a block read borrowed the registry and loaded data_1
C23_Witness ==
    /\ last.op = "read_block" /\ last.ret = "Ok" /\ last.peak = 1
    /\ last.loaded = {1}
    /\ Len(iter.yielded) = 1 /\ iter.current.some


\* what a slice handed out earlier reads through its buffer: the outcome of
\* LazyBlockFileCacheEntry::get on it and, when it parses, the entry
SliceBytes(df, s) == LazyBlockFileCacheEntry_get(df[s.file], s, FALSE)

\* C21: a file number that is in the registry keeps its buffer: no step (a
\* load of another file, an iterator step, a rankings lookup, a stream read, a
\* change of the file on disk) removes, replaces or changes it, so every slice
\* yielded earlier refers to a loaded file and reads after the step what it
\* read before it.
C21_LoadedBufferFrozen ==
    /\ [][\A n \in FileNums :
            IsLoaded(data_files, n) =>
                /\ IsLoaded(data_files', n)
                /\ data_files'[n] = data_files[n]
                /\ \A i \in 1..Len(iter.yielded) :
                     iter.yielded[i].file = n =>
                         SliceBytes(data_files', iter.yielded[i])
                             = SliceBytes(data_files, iter.yielded[i])]_vars
    /\ [](\A i \in 1..Len(iter.yielded) : IsLoaded(data_files, iter.yielded[i].file))

\* C21 witness: a block read was served from the buffer of a file that
\* yielded a slice earlier, while the file on disk no longer matched it
C21_Witness ==
    LET n == file_number(last.addr) IN
    /\ last.op = "read_block" /\ last.ret = "Ok" /\ last.n > 0
    /\ last.loaded = {} /\ last.opened = {}
    /\ writes > 0 /\ last.disk # data_files[n]
    /\ \E i \in 1..Len(iter.yielded) : iter.yielded[i].file = n

====
